---- MODULE Spec2Model ----
(***************************************************************************)
(* IndexedGraph<K, V> of src/lib.rs: two parallel vectors (keys, values)   *)
(* in insertion order, an index i from key to the positions recorded for   *)
(* it, an edge map, and the double-ended iterator Iter over the entries.   *)
(* Positions are 0-based as in the source; TLA+ sequences are 1-based, so  *)
(* position p of a vector s is s[p + 1].                                   *)
(***************************************************************************)
EXTENDS Integers, Sequences, FiniteSets, TLC

\* Bounds of the model: the longest vectors built and the largest key.
MaxLen == 3
MaxKey == 2

\* The largest key of the caller that never inserts a stored key: it can
\* store no more entries than it has keys.
MaxNewKey == 3

\* The longest vectors built where the edge map is exercised too.
MaxFewLen == 2

Keys == 1..MaxKey
Vals == {"a", "b"}
NewKeys == 1..MaxNewKey

VARIABLES
    keys,      \* IndexedGraph.keys   : Vec<K>
    values,    \* IndexedGraph.values : Vec<V>
    edges,     \* IndexedGraph.edges  : BTreeMap<K, K>
    i,         \* IndexedGraph.i      : BTreeMap<K, Vec<usize>>
    ret,       \* what the last call returned (or that it panicked)
    it,        \* the live Iter, if any: [live, length]
    yielded,   \* what the caller of the live Iter has been handed so far
    phase,     \* position of the build-then-drain caller of the doc tests
    built,     \* the entries that caller inserted, in order
    popped,    \* the entries that caller's pop loop was handed, in order
    snapshot   \* the index_copy() a caller keeps, if any (Option, as in ret)

graph == <<keys, values, edges, i>>
caller == <<phase, built, popped, snapshot>>
vars == <<keys, values, edges, i, ret, it, yielded, phase, built, popped, snapshot>>

-----------------------------------------------------------------------------
(* Helpers for vectors and maps *)

\* s[p] of a Vec with a 0-based position p (only used where p < s.len())
At(s, p) == s[p + 1]

\* Vec::remove(0): the vector without its first element
RemoveFirst(s) == SubSeq(s, 2, Len(s))

\* A slip in pop_last: the vector shrinks at the front, as Vec::remove(0)
RemoveLast_front(s) == SubSeq(s, 2, Len(s))

\* Vec::pop(): the vector without its last element
RemoveLast(s) == SubSeq(s, 1, Len(s) - 1)

\* BTreeMap::remove(&key)
MapRemove(m, key) == [k \in DOMAIN m \ {key} |-> m[k]]

\* BTreeMap::insert(key, v)
MapInsert(m, key, v) == [k \in DOMAIN m \cup {key} |-> IF k = key THEN v ELSE m[k]]

EmptyMap == [k \in {} |-> 0]

\* The range of a sequence
Range(s) == {s[n] : n \in 1..Len(s)}

\* The shape of a return value.  Option<T> is a sequence of length 0 or 1
\* (kvs for Option<(K, V)>, vs for Option<&V>); Vec results are sequences.
NoRet ==
    [op |-> "new", arg |-> 0, arg2 |-> 0, panic |-> FALSE, kvs |-> <<>>,
     vs |-> <<>>, n |-> 0, b |-> FALSE, idx |-> EmptyMap]

Ret(op, arg) == [NoRet EXCEPT !.op = op, !.arg = arg]

-----------------------------------------------------------------------------
(* IndexedGraph::new *)

Init ==
    /\ keys = <<>>
    /\ values = <<>>
    /\ edges = EmptyMap
    /\ i = EmptyMap
    /\ ret = NoRet
    /\ it = [live |-> FALSE, length |-> 0]
    /\ yielded = <<>>
    /\ phase = "build"
    /\ built = <<>>
    /\ popped = <<>>
    /\ snapshot = <<>>

-----------------------------------------------------------------------------
(* The operations of IndexedGraph, on the graph and the return value only *)

\* A slip in insert: BTreeMap::insert(key, vec![pos]) for a key already
\* indexed too, which replaces the positions recorded before
index_insert_overwrite(idx, key, pos) == MapInsert(idx, key, <<pos>>)

\* A slip in insert: the position is taken after the value was pushed, so
\* it is values.len() of the grown vector, one too far
index_insert_after_push(idx, key, pos) ==
    IF key \in DOMAIN idx
    THEN [idx EXCEPT ![key] = Append(@, pos + 1)]
    ELSE MapInsert(idx, key, <<pos + 1>>)

\* insert: the index after recording the new position for key
index_insert(idx, key, pos) ==
    IF key \in DOMAIN idx
    THEN [idx EXCEPT ![key] = Append(@, pos)]
    ELSE MapInsert(idx, key, <<pos>>)

insert(key, value) ==
    /\ i' = index_insert(i, key, Len(values))
    /\ values' = Append(values, value)
    /\ keys' = Append(keys, key)
    /\ edges' = edges
    /\ ret' = [Ret("insert", key) EXCEPT !.vs = <<value>>]

\* A slip in the pops: the index is not updated at all
index_remove_forgotten(idx, key) == idx

\* pop_first / pop_last: the index after self.i.remove(&key)
index_remove(idx, key) == MapRemove(idx, key)

pop_first ==
    IF keys = <<>>
    THEN /\ UNCHANGED graph
         /\ ret' = Ret("pop_first", 0)
    ELSE /\ keys' = RemoveFirst(keys)
         /\ values' = RemoveFirst(values)
         /\ i' = index_remove(i, Head(keys))
         /\ edges' = edges
         /\ ret' = [Ret("pop_first", 0) EXCEPT !.kvs = << <<Head(keys), Head(values)>> >>]

pop_last ==
    IF keys = <<>>
    THEN /\ UNCHANGED graph
         /\ ret' = Ret("pop_last", 0)
    ELSE /\ keys' = RemoveLast(keys)
         /\ values' = RemoveLast(values)
         /\ i' = index_remove(i, keys[Len(keys)])
         /\ edges' = edges
         /\ ret' = [Ret("pop_last", 0) EXCEPT
                        !.kvs = << <<keys[Len(keys)], values[Len(values)]>> >>]

\* A slip in insert_edge: an edge is stored only for a source that has
\* none yet (entry(from).or_insert(to)), so a target is never overwritten
edge_insert_if_absent(m, from, to) ==
    IF from \in DOMAIN m THEN m ELSE MapInsert(m, from, to)

\* insert_edge: the edge map after self.edges.insert(from.clone(), to)
edge_insert(m, from, to) == MapInsert(m, from, to)

\* insert_edge returns self.edges.get_key_value(&from) of the updated map
insert_edge(from, to) ==
    /\ edges' = edge_insert(edges, from, to)
    /\ ret' = [Ret("insert_edge", from) EXCEPT
                   !.arg2 = to,
                   !.kvs = IF from \in DOMAIN edges'
                           THEN << <<from, edges'[from]>> >>
                           ELSE <<>>]
    /\ UNCHANGED <<keys, values, i>>

clear ==
    /\ keys' = <<>>
    /\ values' = <<>>
    /\ edges' = EmptyMap
    /\ i' = EmptyMap
    /\ ret' = Ret("clear", 0)

-----------------------------------------------------------------------------
(* The queries, as functions of the graph *)

contains_key(key) == key \in DOMAIN i

len == Cardinality(DOMAIN i)

is_empty == Cardinality(DOMAIN i) = 0

\* A slip in index_copy: each key is copied with the first of its positions
index_copy_first_position == [k \in DOMAIN i |-> <<i[k][1]>>]

index_copy == i

\* get and get_key_values index values with every recorded position:
\* values[*idx] panics when the position is not below values.len()
get_panics(key) ==
    /\ key \in DOMAIN i
    /\ \E n \in 1..Len(i[key]) : i[key][n] >= Len(values)

get(key) ==
    IF key \in DOMAIN i
    THEN [n \in 1..Len(i[key]) |-> At(values, i[key][n])]
    ELSE <<>>

get_key_values(key) ==
    IF key \in DOMAIN i
    THEN [n \in 1..Len(i[key]) |-> <<key, At(values, i[key][n])>>]
    ELSE <<>>

first_key_value ==
    IF keys # <<>> THEN << <<keys[1], At(values, 0)>> >> ELSE <<>>

\* A slip in last_key_value: the value read as first_key_value reads it
last_key_value_first_value ==
    IF keys # <<>> THEN << <<keys[Len(keys)], At(values, 0)>> >> ELSE <<>>

last_key_value ==
    IF keys # <<>> THEN << <<keys[Len(keys)], values[Len(values)]>> >> ELSE <<>>

-----------------------------------------------------------------------------
(* Iter: the iterator's operations, on it, yielded and the return value *)

\* IndexedGraph::iter: the iterator starts with length = self.len()
iter_length == len

iter ==
    /\ it' = [live |-> TRUE, length |-> iter_length]
    /\ yielded' = <<>>
    /\ ret' = Ret("iter", 0)

\* Iter::next: the position read after self.length -= 1
next_idx(length) == len - 1 - length

\* Iter::next_back: the position read after self.length -= 1
next_back_idx(length) == length

\* A slip in the iterator: a step that finds nothing left reports None and
\* rewinds the iterator to the full length of the graph
step_rewind(op, idx) ==
    IF it.length = 0
    THEN /\ ret' = Ret(op, 0)
         /\ it' = [it EXCEPT !.length = len]
         /\ UNCHANGED yielded
    ELSE /\ it' = [it EXCEPT !.length = @ - 1]
         /\ IF idx < 0 \/ idx >= Len(keys) \/ idx >= Len(values)
            THEN /\ ret' = [Ret(op, 0) EXCEPT !.panic = TRUE]
                 /\ UNCHANGED yielded
            ELSE /\ ret' = [Ret(op, 0) EXCEPT
                               !.kvs = << <<At(keys, idx), At(values, idx)>> >>]
                 /\ yielded' = Append(yielded,
                        [dir |-> op, pos |-> idx,
                         kv |-> <<At(keys, idx), At(values, idx)>>])

\* One step of the iterator from either end; reading keys[idx] or values[idx]
\* panics when idx is not a position of the vectors (a usize below 0 does
\* not exist: the subtraction overflows, or wraps far beyond the vectors)
step(op, idx) ==
    IF it.length = 0
    THEN /\ ret' = Ret(op, 0)
         /\ UNCHANGED <<it, yielded>>
    ELSE /\ it' = [it EXCEPT !.length = @ - 1]
         /\ IF idx < 0 \/ idx >= Len(keys) \/ idx >= Len(values)
            THEN /\ ret' = [Ret(op, 0) EXCEPT !.panic = TRUE]
                 /\ UNCHANGED yielded
            ELSE /\ ret' = [Ret(op, 0) EXCEPT
                               !.kvs = << <<At(keys, idx), At(values, idx)>> >>]
                 /\ yielded' = Append(yielded,
                        [dir |-> op, pos |-> idx,
                         kv |-> <<At(keys, idx), At(values, idx)>>])

next == step("next", next_idx(it.length - 1))

\* A slip in size_hint: the size of the graph, not what is left of it
size_hint_of_graph == <<len, len>>

\* Iter::size_hint: (lower bound, upper bound) of what is left
size_hint == <<it.length, it.length>>

\* ExactSizeIterator::len for Iter
Iter_len == it.length

next_back == step("next_back", next_back_idx(it.length - 1))

-----------------------------------------------------------------------------
(* Actions: the calls a single owner can make.  A live Iter borrows the    *)
(* graph, so no &mut self method can be called until it is dropped.        *)

Insert(key, value) ==
    /\ ~it.live
    /\ Len(keys) < MaxLen
    /\ insert(key, value)
    /\ UNCHANGED <<it, yielded, caller>>

PopFirst ==
    /\ ~it.live
    /\ pop_first
    /\ UNCHANGED <<it, yielded, caller>>

PopLast ==
    /\ ~it.live
    /\ pop_last
    /\ UNCHANGED <<it, yielded, caller>>

Clear ==
    /\ ~it.live
    /\ clear
    /\ UNCHANGED <<it, yielded, caller>>

Get(key) ==
    /\ ret' = IF get_panics(key)
              THEN [Ret("get", key) EXCEPT !.panic = TRUE]
              ELSE [Ret("get", key) EXCEPT !.vs = get(key)]
    /\ UNCHANGED <<graph, it, yielded, caller>>

\* index(key) is self.get(&key)
Index(key) ==
    /\ ret' = IF get_panics(key)
              THEN [Ret("index", key) EXCEPT !.panic = TRUE]
              ELSE [Ret("index", key) EXCEPT !.vs = get(key)]
    /\ UNCHANGED <<graph, it, yielded, caller>>

GetKeyValues(key) ==
    /\ ret' = IF get_panics(key)
              THEN [Ret("get_key_values", key) EXCEPT !.panic = TRUE]
              ELSE [Ret("get_key_values", key) EXCEPT !.kvs = get_key_values(key)]
    /\ UNCHANGED <<graph, it, yielded, caller>>

FirstKeyValue ==
    /\ ret' = [Ret("first_key_value", 0) EXCEPT !.kvs = first_key_value]
    /\ UNCHANGED <<graph, it, yielded, caller>>

LastKeyValue ==
    /\ ret' = [Ret("last_key_value", 0) EXCEPT !.kvs = last_key_value]
    /\ UNCHANGED <<graph, it, yielded, caller>>

ContainsKey(key) ==
    /\ ret' = [Ret("contains_key", key) EXCEPT !.b = contains_key(key)]
    /\ UNCHANGED <<graph, it, yielded, caller>>

LenQuery ==
    /\ ret' = [Ret("len", 0) EXCEPT !.n = len]
    /\ UNCHANGED <<graph, it, yielded, caller>>

IsEmpty ==
    /\ ret' = [Ret("is_empty", 0) EXCEPT !.b = is_empty]
    /\ UNCHANGED <<graph, it, yielded, caller>>

IndexCopy ==
    /\ ret' = [Ret("index_copy", 0) EXCEPT !.idx = index_copy]
    /\ UNCHANGED <<graph, it, yielded, caller>>

Next ==
    \/ \E key \in Keys, value \in Vals : Insert(key, value)
    \/ PopFirst
    \/ PopLast
    \/ Clear
    \/ \E key \in Keys : Get(key)
    \/ \E key \in Keys : Index(key)
    \/ \E key \in Keys : GetKeyValues(key)
    \/ FirstKeyValue
    \/ LastKeyValue
    \/ \E key \in Keys : ContainsKey(key)
    \/ LenQuery
    \/ IsEmpty
    \/ IndexCopy

Spec == Init /\ [][Next]_vars

\* The &mut self methods of the container alone
NextMut ==
    \/ \E key \in Keys, value \in Vals : Insert(key, value)
    \/ PopFirst
    \/ PopLast
    \/ Clear

SpecMut == Init /\ [][NextMut]_vars

-----------------------------------------------------------------------------
(* The container with its edge map.  Edges are stored under any key,      *)
(* whether the graph holds it or not; the vectors are kept short here.    *)

InsertEdge(from, to) ==
    /\ ~it.live
    /\ insert_edge(from, to)
    /\ UNCHANGED <<it, yielded, caller>>

InsertFew(key, value) ==
    /\ Len(keys) < MaxFewLen
    /\ Insert(key, value)

NextEdges ==
    \/ \E key \in Keys, value \in Vals : InsertFew(key, value)
    \/ PopFirst
    \/ PopLast
    \/ Clear
    \/ \E from \in Keys, to \in Keys : InsertEdge(from, to)

SpecEdges == Init /\ [][NextEdges]_vars

\* A caller that keeps the map index_copy() returned while it goes on
\* changing the graph: let copy = graph.index_copy();  The one edge this
\* caller sets is from the smallest key to itself.
TakeCopy ==
    /\ ret' = [Ret("index_copy", 0) EXCEPT !.idx = index_copy]
    /\ snapshot' = <<index_copy>>
    /\ UNCHANGED <<graph, it, yielded, phase, built, popped>>

NextCopy ==
    \/ \E key \in Keys, value \in Vals : InsertFew(key, value)
    \/ PopFirst
    \/ PopLast
    \/ Clear
    \/ \E from \in {1}, to \in {1} : InsertEdge(from, to)
    \/ TakeCopy

SpecCopy == Init /\ [][NextCopy]_vars

-----------------------------------------------------------------------------
\* A caller that inserts only keys that are not stored, and removes only
\* with pop_last and clear
InsertNew(key, value) ==
    /\ \A n \in 1..Len(keys) : keys[n] # key
    /\ Insert(key, value)

NextSafe ==
    \/ \E key \in NewKeys, value \in Vals : InsertNew(key, value)
    \/ PopLast
    \/ Clear
    \/ \E key \in NewKeys : Get(key)
    \/ \E key \in NewKeys : ContainsKey(key)
    \/ LenQuery
    \/ IndexCopy

SpecSafe == Init /\ [][NextSafe]_vars

-----------------------------------------------------------------------------
(* The graph under mutation with an iterator taken between the mutations *)

IterNew ==
    /\ ~it.live
    /\ iter
    /\ UNCHANGED <<graph, caller>>

IterNext ==
    /\ it.live
    /\ next
    /\ UNCHANGED <<graph, caller>>

IterNextBack ==
    /\ it.live
    /\ next_back
    /\ UNCHANGED <<graph, caller>>

\* The iterator goes out of scope; the borrow of the graph ends
IterDrop ==
    /\ it.live
    /\ it' = [live |-> FALSE, length |-> 0]
    /\ yielded' = <<>>
    /\ ret' = Ret("drop", 0)
    /\ UNCHANGED <<graph, caller>>

NextIter ==
    \/ \E key \in Keys, value \in Vals : Insert(key, value)
    \/ PopFirst
    \/ PopLast
    \/ Clear
    \/ IterNew
    \/ IterNext
    \/ IterNextBack
    \/ IterDrop

SpecIter == Init /\ [][NextIter]_vars

\* The same with a graph that is only ever inserted into
NextIterBuilt ==
    \/ \E key \in Keys, value \in Vals : Insert(key, value)
    \/ IterNew
    \/ IterNext
    \/ IterNextBack
    \/ IterDrop

SpecIterBuilt == Init /\ [][NextIterBuilt]_vars

-----------------------------------------------------------------------------
(* The caller of the pop_first and pop_last doc tests: it inserts entries, *)
(* then pops from one end in a loop until the pop returns None.            *)

BuildInsert(key, value) ==
    /\ phase = "build"
    /\ Len(keys) < MaxLen
    /\ insert(key, value)
    /\ built' = Append(built, <<key, value>>)
    /\ UNCHANGED <<it, yielded, phase, popped, snapshot>>

\* while let Some((key, _val)) = graph.pop_first() { ... }
DrainFirst ==
    /\ phase \in {"build", "first"}
    /\ pop_first
    /\ popped' = popped \o ret'.kvs
    /\ phase' = IF ret'.kvs = <<>> THEN "done_first" ELSE "first"
    /\ UNCHANGED <<it, yielded, built, snapshot>>

\* while let Some((key, _val)) = graph.pop_last() { ... }
DrainLast ==
    /\ phase \in {"build", "last"}
    /\ pop_last
    /\ popped' = popped \o ret'.kvs
    /\ phase' = IF ret'.kvs = <<>> THEN "done_last" ELSE "last"
    /\ UNCHANGED <<it, yielded, built, snapshot>>

NextDrain ==
    \/ \E key \in Keys, value \in Vals : BuildInsert(key, value)
    \/ DrainFirst
    \/ DrainLast

SpecDrain == Init /\ [][NextDrain]_vars

-----------------------------------------------------------------------------
(* What the properties below are stated with *)

\* The stored entries, (keys[p], values[p]) for p = 0 .. N-1
Entries == [n \in 1..Len(keys) |-> <<keys[n], values[n]>>]

Reverse(s) == [n \in 1..Len(s) |-> s[Len(s) + 1 - n]]

\* The values of the entries of es stored under key, in the order of es
RECURSIVE ValuesUnder(_, _)
ValuesUnder(es, key) ==
    IF es = <<>> THEN <<>>
    ELSE IF Head(es)[1] = key
         THEN <<Head(es)[2]>> \o ValuesUnder(Tail(es), key)
         ELSE ValuesUnder(Tail(es), key)

\* Every position the index records, over all keys
IndexPositions == UNION {Range(i[k]) : k \in DOMAIN i}

\* How many positions the index records, over the keys 1..n
RECURSIVE IndexCount(_)
IndexCount(n) ==
    IF n = 0 THEN 0
    ELSE IndexCount(n - 1) + (IF n \in DOMAIN i THEN Len(i[n]) ELSE 0)

\* The positions the iterator's caller was handed before its n-th entry
YieldedBefore(n) == {yielded[m].pos : m \in 1..(n - 1)}

SetMin(S) == CHOOSE x \in S : \A y \in S : x <= y
SetMax(S) == CHOOSE x \in S : \A y \in S : x >= y

-----------------------------------------------------------------------------
(* C1 .. C10 *)

\* C1: a pop removes from the index only the position of the removed entry:
\* right after pop_first or pop_last returned an entry of key k, if k still
\* has stored entries then contains_key(k) holds and get(k) returns exactly
\* their values in insertion order; k leaves the index only with its last
\* occurrence.
C1_PopKeepsOtherOccurrences ==
    (ret.op \in {"pop_first", "pop_last"} /\ ret.kvs # <<>>) =>
        LET k == ret.kvs[1][1] IN
        IF k \in Range(keys)
        THEN /\ contains_key(k)
             /\ ~get_panics(k)
             /\ get(k) = ValuesUnder(Entries, k)
        ELSE ~contains_key(k)

\* C2: partition invariant: the position lists of the index, concatenated and
\* sorted, are exactly 0 .. N-1, with no gap and no duplicate.
C2_Partition ==
    /\ IndexPositions = 0..(Len(keys) - 1)
    /\ IndexCount(MaxKey) = Len(keys)

\* C3: no query fails: every position the index records is below N, so get
\* and get_key_values never index values out of bounds, and no call panicked.
C3_NoQueryFails ==
    /\ \A k \in Keys : ~get_panics(k)
    /\ \A k \in Keys : ~contains_key(k) => get(k) = <<>> /\ get_key_values(k) = <<>>
    /\ ~ret.panic

\* C4: cardinality: the index holds exactly the distinct keys of the keys
\* vector, so len() counts them and contains_key(k) tells whether k is stored.
C4_Cardinality ==
    /\ DOMAIN i = Range(keys)
    /\ len = Cardinality(Range(keys))
    /\ \A k \in Keys : contains_key(k) <=> k \in Range(keys)

\* C5: order preservation: an iterator driven to exhaustion by next() alone
\* has yielded exactly the N stored entries in insertion order, and one driven
\* by next_back() alone exactly their reverse.
C5_OrderPreservation ==
    (it.live /\ it.length = 0) =>
        /\ (\A n \in 1..Len(yielded) : yielded[n].dir = "next") =>
               [n \in 1..Len(yielded) |-> yielded[n].kv] = Entries
        /\ (\A n \in 1..Len(yielded) : yielded[n].dir = "next_back") =>
               [n \in 1..Len(yielded) |-> yielded[n].kv] = Reverse(Entries)

\* C6: double-ended window: whatever the mix of next() and next_back(), each
\* next() yields the lowest position not yet yielded, each next_back() the
\* highest, no position is yielded twice, and the iterator is exhausted
\* exactly when every position has been yielded.
C6_DoubleEndedWindow ==
    it.live =>
        /\ \A n \in 1..Len(yielded) :
               LET rest == (0..(Len(keys) - 1)) \ YieldedBefore(n) IN
               /\ rest # {}
               /\ yielded[n].dir = "next" => yielded[n].pos = SetMin(rest)
               /\ yielded[n].dir = "next_back" => yielded[n].pos = SetMax(rest)
        /\ ~ret.panic
        /\ it.length = 0 <=> YieldedBefore(Len(yielded) + 1) = 0..(Len(keys) - 1)

\* C7: pop_first and pop_last return None exactly when is_empty(): called
\* when is_empty() is true they return None and leave the graph unchanged,
\* called when it is false they return Some.
C7_PopNoneIffEmpty ==
    [][ret'.op \in {"pop_first", "pop_last"} =>
            IF is_empty
            THEN ret'.kvs = <<>> /\ UNCHANGED graph
            ELSE ret'.kvs # <<>>]_vars

\* C8: pop symmetry: after N inserts, a pop_first loop is handed the entries
\* in insertion order and a pop_last loop in reverse insertion order, every
\* one of the first N pops returns an entry, and once N were popped
\* is_empty() is true and the next pop returns None.
C8_PopSymmetry ==
    /\ phase \in {"first", "done_first"} =>
           popped = SubSeq(built, 1, Len(popped))
    /\ phase \in {"last", "done_last"} =>
           popped = Reverse(SubSeq(built, Len(built) - Len(popped) + 1, Len(built)))
    /\ phase \in {"first", "last"} =>
           /\ ret.kvs # <<>>
           /\ Len(popped) = Len(built) => is_empty
    /\ phase \in {"done_first", "done_last"} =>
           /\ Len(popped) = Len(built)
           /\ is_empty
           /\ ret.kvs = <<>>

\* C8 happens: a pop_first loop drained three entries, two under one key,
\* and its last pop returned None.
C8_Witness ==
    /\ phase = "done_first"
    /\ Len(built) = 3
    /\ built[1][1] = built[3][1]
    /\ built[1][1] # built[2][1]
    /\ popped = built
    /\ ret.op = "pop_first"

\* C9: multiplicity: in a graph built by inserts only, get(k) returns exactly
\* the values inserted under k, in the order they were inserted (as many as k
\* was inserted), and the empty sequence for a key never inserted.
C9_Multiplicity ==
    phase = "build" =>
        \A k \in Keys :
            /\ ~get_panics(k)
            /\ get(k) = ValuesUnder(built, k)
            /\ get_key_values(k) = [n \in 1..Len(get(k)) |-> <<k, get(k)[n]>>]

\* C9 happens: a key inserted twice around an insert of another key, and a
\* key never inserted.
C9_Witness ==
    /\ phase = "build"
    /\ Len(built) = 3
    /\ built[1][1] = 1 /\ built[2][1] = 2 /\ built[3][1] = 1
    /\ built[1][2] # built[3][2]
    /\ get(1) = <<built[1][2], built[3][2]>>

RECURSIVE PositionsOf(_, _, _)
PositionsOf(ks, key, n) ==
    IF n = 0 THEN <<>>
    ELSE PositionsOf(ks, key, n - 1) \o (IF ks[n] = key THEN <<n - 1>> ELSE <<>>)

-----------------------------------------------------------------------------
(* C11 .. C20 *)

\* C11: for every non-empty graph, the key of the pair first_key_value()
\* returns is the minimum key in the graph: no stored key is smaller.
C11_FirstKeyIsMinimum ==
    (ret.op = "first_key_value" /\ keys # <<>>) =>
        /\ ret.kvs # <<>>
        /\ \A k \in Range(keys) : ret.kvs[1][1] <= k

C17_PositionsNameKey ==
    \A k \in DOMAIN i : \A n \in 1..Len(i[k]) :
        /\ i[k][n] < Len(keys)
        /\ At(keys, i[k][n]) = k

\* C19: the index never holds a key that is absent from storage: every key
\* of the index occurs in the keys vector, so with no entry stored
\* is_empty() is true and len() is 0.
C19_NoStaleKey ==
    /\ DOMAIN i \subseteq Range(keys)
    /\ Len(keys) = 0 => (is_empty /\ len = 0)

\* C19 happens: a pop returned the last stored entry and left the graph
\* empty.
C19_Witness ==
    /\ ret.op \in {"pop_first", "pop_last"}
    /\ ret.kvs # <<>>
    /\ Len(keys) = 0
    /\ is_empty

\* C14: exact size: at every point of an iterator, len() and size_hint()
\* report exactly how many entries further next() / next_back() calls will
\* yield: a step taken when they report 0 yields nothing and they stay 0, a
\* step taken when they report n > 0 yields an entry and they report n - 1.
C14_ExactSize ==
    [][(it.live /\ ret'.op \in {"next", "next_back"}) =>
            /\ size_hint = <<Iter_len, Iter_len>>
            /\ size_hint' = <<Iter_len', Iter_len'>>
            /\ IF Iter_len = 0
               THEN /\ ret'.kvs = <<>>
                    /\ Iter_len' = 0
                    /\ yielded' = yielded
               ELSE /\ Len(ret'.kvs) = 1
                    /\ ~ret'.panic
                    /\ Iter_len' = Iter_len - 1
                    /\ Len(yielded') = Len(yielded) + 1]_vars

\* C14 happens: an iterator that reported 2 has yielded two entries, one from
\* each end, and reports 0.
C14_Witness ==
    /\ it.live
    /\ Len(yielded) = 2
    /\ yielded[1].dir # yielded[2].dir
    /\ size_hint = <<0, 0>>
    /\ Iter_len = 0

\* C15: fused: once next() or next_back() has returned None, every later
\* next() or next_back() on that iterator returns None as well.
C15_Fused ==
    [][(/\ it.live
        /\ ret.op \in {"next", "next_back"}
        /\ ret.kvs = <<>> /\ ~ret.panic
        /\ ret'.op \in {"next", "next_back"}) =>
            (ret'.kvs = <<>> /\ ~ret'.panic)]_vars

\* C15 happens: an iterator that yielded two entries was asked again from
\* the back and returned None.
C15_Witness ==
    /\ it.live
    /\ Len(yielded) = 2
    /\ ret.op = "next_back"
    /\ ret.kvs = <<>>
    /\ ~ret.panic

\* C18: the iterator never reads out of bounds: its length, taken from the
\* number of keys of the index, never exceeds N, so the position its next
\* step reads from either end is a position of the vectors, and no step
\* panicked.
C18_IterInBounds ==
    /\ ret.op \in {"next", "next_back"} => ~ret.panic
    /\ len <= Len(keys)
    /\ it.live =>
        /\ it.length <= Len(keys)
        /\ it.length > 0 =>
            /\ next_idx(it.length - 1) \in 0..(Len(keys) - 1)
            /\ next_back_idx(it.length - 1) \in 0..(Len(keys) - 1)
            /\ Len(values) = Len(keys)
        /\ \A n \in 1..Len(yielded) : yielded[n].pos \in 0..(Len(keys) - 1)

\* C18 happens: an iterator over a graph whose index a pop had left without
\* one of the stored keys has yielded an entry.
C18_Witness ==
    /\ it.live
    /\ Len(yielded) >= 1
    /\ DOMAIN i # Range(keys)
    /\ ret.op \in {"next", "next_back"}

\* C20: safe usage subset: with only insert, pop_last and clear, and insert
\* never called with a key that is stored, the index is consistent with
\* storage after every operation: its keys are the stored keys and each
\* key's list is exactly the positions p with keys[p] equal to that key.
C20_SafeSubset ==
    /\ DOMAIN i = Range(keys)
    /\ \A k \in DOMAIN i : i[k] = PositionsOf(keys, k, Len(keys))
    /\ \A k \in NewKeys : ~get_panics(k)
    /\ ~ret.panic

\* C20 happens: three keys are stored, not in ascending order, and get of
\* the last one returned its value.
C20_Witness ==
    /\ Len(keys) = 3
    /\ keys[1] > keys[3]
    /\ ret.op = "get"
    /\ ret.arg = keys[3]
    /\ ret.vs = <<values[3]>>
    /\ i[keys[3]] = <<2>>

\* C13: index_copy() returns a map equal to the live index at the time of the
\* call and leaves the graph unchanged, and no later insert, pop_first,
\* pop_last, clear or insert_edge on the graph changes the map the caller
\* was handed.
C13_IndexCopy ==
    [][/\ ret'.op = "index_copy" =>
            /\ UNCHANGED graph
            /\ ~ret'.panic
            /\ ret'.idx = i
            /\ snapshot' = <<i>>
       /\ ret'.op \in {"insert", "pop_first", "pop_last", "clear", "insert_edge"} =>
            snapshot' = snapshot]_vars

\* C13 happens: the caller holds a copy with two positions under one key
\* while pops have emptied the live index.
C13_Witness ==
    /\ snapshot # <<>>
    /\ \E k \in DOMAIN snapshot[1] : Len(snapshot[1][k]) = 2
    /\ DOMAIN i = {}
    /\ ret.op \in {"pop_first", "pop_last"}

====
